---------------------------- MODULE Spec2Model ----------------------------
(***************************************************************************)
(* Model of src/streamlip_app.py: the COMcheck CXL generator.              *)
(*                                                                         *)
(* Representation.                                                         *)
(*   - A Python string is a sequence of one-character strings, so that     *)
(*     strip(), lower(), substring tests and re.sub() are computed.  A     *)
(*     symbol the code only copies (ACTIVITY_COMMON_LOBBY, ...) is written *)
(*     as a one-element sequence holding the whole symbol.                 *)
(*   - A missing text cell (pandas NaN / None) is the text NaN.            *)
(*   - A float is held in hundredths (0.86 is 86); a float that may be NaN *)
(*     is a sequence of length 0 (NaN) or 1 (the hundredths).              *)
(*   - The XML document is the element tree build_cxl constructs; element  *)
(*     texts are Python strings as above.                                  *)
(***************************************************************************)
EXTENDS Integers, Sequences, FiniteSets, TLC

VARIABLES
    spaces_file,    \* st.file_uploader "Upload Spaces CSV": 0 (no file) or the file's
                    \* number in SpaceFile
    fixtures_file,  \* st.file_uploader "Upload Fixtures CSV": 0 or the file's number
                    \* in FixtureFile
    edits,          \* st.data_editor widget state: the edits made to the data
    spaces_df,      \* spaces_df at the end of the last script run
    fixtures_df,    \* fixtures_df at the end of the last script run
    messages,       \* st.success / st.error / st.warning texts of the last run
    disabled,       \* the Generate button's disabled flag in the last run
    xml_bytes,      \* <<>> or <<root>>: the blob offered by st.download_button
    cls_desc,       \* classify_activity: the argument
    cls_ret,        \* classify_activity: <<>> or <<return value>>
    pw_val,         \* parse_watts: the argument
    pw_ret          \* parse_watts: <<>> or <<return value>>

appVars == <<spaces_file, fixtures_file, edits, spaces_df, fixtures_df,
             messages, disabled, xml_bytes>>
clsVars == <<cls_desc, cls_ret>>
pwVars == <<pw_val, pw_ret>>
vars == <<appVars, clsVars, pwVars>>

----------------------------------------------------------------------------
(* Bounds                                                                  *)

MaxFrags == 3        \* fragments in a room name given to classify_activity
MaxWattLen == 3      \* characters in a wattage cell given to parse_watts
MaxSpaceRows == 2    \* rows in an uploaded spaces CSV
MaxFixtureRows == 2  \* rows in an uploaded fixtures CSV
MaxEdits == 1        \* edits made in the data editor per upload

----------------------------------------------------------------------------
(* Python strings                                                          *)

NaN == <<"<NaN>">>

Range(s) == {s[i] : i \in DOMAIN s}

UpperChars == <<"A","B","C","D","E","F","G","H","I","J","K","L","M",
                "N","O","P","Q","R","S","T","U","V","W","X","Y","Z">>
LowerChars == <<"a","b","c","d","e","f","g","h","i","j","k","l","m",
                "n","o","p","q","r","s","t","u","v","w","x","y","z">>
Digits == <<"0","1","2","3","4","5","6","7","8","9">>
DigitChars == Range(Digits)

\* code-point order of the characters used
CharOrder == <<" ", "-", ".">> \o Digits \o UpperChars \o LowerChars

Ord(c) == CHOOSE i \in DOMAIN CharOrder : CharOrder[i] = c

LowerMap == [c \in Range(UpperChars) |->
                LowerChars[CHOOSE i \in DOMAIN UpperChars : UpperChars[i] = c]]

\* str.lower()
Lower(s) == [i \in DOMAIN s |-> IF s[i] \in DOMAIN LowerMap THEN LowerMap[s[i]] ELSE s[i]]

IsSpace(c) == c = " "

\* str.strip()
Strip(s) ==
    LET keep == {i \in DOMAIN s : ~IsSpace(s[i])}
    IN  IF keep = {} THEN <<>>
        ELSE LET lo == CHOOSE i \in keep : \A j \in keep : i <= j
                 hi == CHOOSE i \in keep : \A j \in keep : j <= i
             IN  SubSeq(s, lo, hi)

\* k in s
Contains(s, k) ==
    \E off \in 0..(Len(s) - Len(k)) : \A j \in DOMAIN k : s[off + j] = k[j]

\* s < t, Python's comparison of two strings
RECURSIVE StrLess(_, _)
StrLess(s, t) ==
    IF t = <<>> THEN FALSE
    ELSE IF s = <<>> THEN TRUE
    ELSE IF Head(s) # Head(t) THEN Ord(Head(s)) < Ord(Head(t))
    ELSE StrLess(Tail(s), Tail(t))

DigitVal(c) == (CHOOSE i \in DOMAIN Digits : Digits[i] = c) - 1

RECURSIVE DigitsVal(_)
DigitsVal(s) ==
    IF s = <<>> THEN 0 ELSE 10 * DigitsVal(SubSeq(s, 1, Len(s) - 1)) + DigitVal(s[Len(s)])

\* str(n) of an int n >= 0
RECURSIVE IntStr(_)
IntStr(n) == IF n < 10 THEN <<Digits[n + 1]>> ELSE IntStr(n \div 10) \o <<Digits[(n % 10) + 1]>>

\* str(x) of a float x >= 0 held in hundredths: shortest repr, at least one decimal
FloatStr(h) ==
    IntStr(h \div 100) \o <<".">> \o
        (IF h % 10 = 0 THEN <<Digits[((h % 100) \div 10) + 1]>>
         ELSE <<Digits[((h % 100) \div 10) + 1], Digits[(h % 10) + 1]>>)

\* Does float(s) / pd.to_numeric accept s: digits with at most one decimal point
\* (signs, exponents, inf and nan are outside the alphabet of the inputs)
IsDecimal(s) ==
    /\ \A i \in DOMAIN s : s[i] \in DigitChars \/ s[i] = "."
    /\ Cardinality({i \in DOMAIN s : s[i] = "."}) <= 1
    /\ \E i \in DOMAIN s : s[i] \in DigitChars

IntPart(s) ==
    LET dots == {i \in DOMAIN s : s[i] = "."}
    IN  IF dots = {} THEN s ELSE SubSeq(s, 1, (CHOOSE i \in dots : TRUE) - 1)

FracPart(s) ==
    LET dots == {i \in DOMAIN s : s[i] = "."}
    IN  IF dots = {} THEN <<>> ELSE SubSeq(s, (CHOOSE i \in dots : TRUE) + 1, Len(s))

\* int(float(s)) for an accepted s: truncation
TruncInt(s) == DigitsVal(IntPart(s))

\* float(s) in hundredths, for an accepted s of at most two decimals
Hundredths(s) ==
    LET f == FracPart(s) \o <<"0", "0">>
    IN  100 * DigitsVal(IntPart(s)) + DigitsVal(SubSeq(f, 1, 2))

----------------------------------------------------------------------------
(* classify_activity                                                       *)

OPEN_PLAN == <<"ACTIVITY_COMMON_OFFICE_OPEN_PLAN">>
ENCLOSED == <<"ACTIVITY_COMMON_OFFICE_ENCLOSED">>
CONFERENCE == <<"ACTIVITY_COMMON_CONFERENCE_HALL">>
LOBBY == <<"ACTIVITY_COMMON_LOBBY">>
CORRIDOR == <<"ACTIVITY_COMMON_CORRIDOR">>

OpenPlanKeys == { <<"o","p","e","n"," ","d","e","s","k">>,
                  <<"o","p","e","n"," ","o","f","f","i","c","e">>,
                  <<"w","o","r","k","s","t","a","t","i","o","n">>,
                  <<"d","e","s","k","s">> }
EnclosedKeys == { <<"l","a","r","g","e"," ","o","f","f","i","c","e">>,
                  <<"p","r","i","v","a","t","e"," ","o","f","f","i","c","e">>,
                  <<"o","f","f","i","c","e">> }
ConferenceKeys == { <<"c","o","n","f","e","r","e","n","c","e">>,
                    <<"p","h","o","n","e">>,
                    <<"h","u","d","d","l","e">>,
                    <<"m","e","e","t","i","n","g">> }
LobbyKeys == { <<"l","o","b","b","y">>,
               <<"r","e","c","e","p","t","i","o","n">>,
               <<"p","r","e","f","u","n","c","t","i","o","n">> }
CorridorKeys == { <<"c","o","r","r","i","d","o","r">>,
                  <<"h","a","l","l">>,
                  <<"h","a","l","l","w","a","y">> }

\* any(k in d for k in keys)
AnyIn(keys, d) == \E k \in keys : Contains(d, k)

Activity(a, lpd) == [activityType |-> a, lpd |-> lpd]

\* a deliberately wrong variant: the corridor rule is tried before the office rules
classify_activity_corridor_first(desc) ==
    LET d == Lower(IF desc # NaN THEN desc ELSE <<>>)
    IN  IF AnyIn(CorridorKeys, d) THEN Activity(CORRIDOR, 66)
        ELSE IF AnyIn(OpenPlanKeys, d) THEN Activity(OPEN_PLAN, 86)
        ELSE IF AnyIn(EnclosedKeys, d) THEN Activity(ENCLOSED, 79)
        ELSE IF AnyIn(ConferenceKeys, d) THEN Activity(CONFERENCE, 93)
        ELSE IF AnyIn(LobbyKeys, d) THEN Activity(LOBBY, 90)
        ELSE Activity(OPEN_PLAN, 86)

classify_activity(desc) ==
    LET d == Lower(IF desc # NaN THEN desc ELSE <<>>)
    IN  IF AnyIn(OpenPlanKeys, d) THEN Activity(OPEN_PLAN, 86)
        ELSE IF AnyIn(EnclosedKeys, d) THEN Activity(ENCLOSED, 79)
        ELSE IF AnyIn(ConferenceKeys, d) THEN Activity(CONFERENCE, 93)
        ELSE IF AnyIn(LobbyKeys, d) THEN Activity(LOBBY, 90)
        ELSE IF AnyIn(CorridorKeys, d) THEN Activity(CORRIDOR, 66)
        ELSE Activity(OPEN_PLAN, 86)

----------------------------------------------------------------------------
(* parse_watts                                                             *)

WattInt(n) == [isnum |-> TRUE, num |-> n, str |-> <<>>]
WattStr(s) == [isnum |-> FALSE, num |-> 0, str |-> s]

\* re.sub(r"[^\d.]+", "", s)
KeepDigitsAndDots(s) == SelectSeq(s, LAMBDA c : c \in DigitChars \/ c = ".")

parse_watts(val) ==
    IF val = NaN THEN WattStr(<<>>)
    ELSE LET s == KeepDigitsAndDots(Strip(val))
         IN  IF IsDecimal(s) THEN WattInt(TruncInt(s)) ELSE WattStr(s)

----------------------------------------------------------------------------
(* Constants & dictionaries                                                *)

ALLOWANCE_NONE == <<"ALLOWANCE_NONE">>
ALLOWANCE_LOBBIES == <<"ALLOWANCE_DECORATIVE_APPEARANCE_LOBBIES">>
ALLOWANCE_OTHER == <<"ALLOWANCE_DECORATIVE_APPEARANCE_OTHER">>
ALLOWANCE_TYPES == {ALLOWANCE_NONE, ALLOWANCE_LOBBIES, ALLOWANCE_OTHER}

DEFAULT_COMPLIANCE_MODE == <<"UA">>
DEFAULT_SOFTWARE_VERSION == <<"24.1.6">>

\* CODE_TO_CONTROL.get(selected_code_label, "CEZ_IECC2018") for the labels used
CODE_TO_CONTROL(label) ==
    IF label = "NYC Energy Conservation Code (NYCECC)" THEN <<"CEZ_LOCAL_NYCECC">>
    ELSE IF label = "IECC 2021" THEN <<"CEZ_IECC2021">>
    ELSE <<"CEZ_IECC2018">>

\* the sidebar's widgets, left at their defaults
code_label == "NYC Energy Conservation Code (NYCECC)"
version_str == DEFAULT_SOFTWARE_VERSION
state == <<"New York">>
city == <<"New York">>
project_name == <<"Sample Project">>
owner_name == <<>>
notes == <<"Generated via Streamlit">>

----------------------------------------------------------------------------
(* pandas cells                                                            *)

None == <<"<None>">>

\* str(x) / Series.astype(str) of a text cell
PyStr(x) == IF x = NaN THEN <<"n","a","n">>
            ELSE IF x = None THEN <<"N","o","n","e">>
            ELSE x

\* pd.to_numeric(x, errors="coerce"): <<>> is NaN, <<h>> a float in hundredths
ToNumeric(x) == IF x # NaN /\ x # None /\ IsDecimal(x) THEN <<Hundredths(x)>> ELSE <<>>

\* pd.to_numeric(x, errors="coerce").fillna(0).astype(int), kept in hundredths
ToIntOrZero(x) == IF x # NaN /\ x # None /\ IsDecimal(x) THEN <<100 * TruncInt(x)>> ELSE <<0>>

\* str(int(float(x)) if pd.notna(x) else 0) of a float cell
IntStrOrZero(x) == IF x # <<>> THEN IntStr(x[1] \div 100) ELSE <<"0">>

\* str(x) of a float cell
FloatCellStr(x) == IF x # <<>> THEN FloatStr(x[1]) ELSE <<"n","a","n">>

\* the value of a map over a sequence
Map(s, Op(_)) == [i \in DOMAIN s |-> Op(s[i])]

----------------------------------------------------------------------------
(* load_spaces_df                                                          *)

load_spaces_row(mapping, raw) ==
    LET description == PyStr(raw.description)
        act == classify_activity(description)
    IN  [ description |-> description,
          floorArea |-> ToNumeric(raw.floorArea),
          activityType |-> IF "activityType" \in mapping
                           THEN PyStr(raw.activityType) ELSE act.activityType,
          lpd |-> IF "activityType" \in mapping /\ "lpd" \in mapping
                  THEN ToNumeric(raw.lpd) ELSE <<act.lpd>>,
          allowanceType |-> IF "allowanceType" \in mapping
                            THEN (IF raw.allowanceType = NaN THEN ALLOWANCE_NONE
                                  ELSE raw.allowanceType)
                            ELSE ALLOWANCE_NONE,
          allowanceFloorArea |-> IF "allowanceFloorArea" \in mapping
                                 THEN ToIntOrZero(raw.allowanceFloorArea) ELSE <<0>> ]

load_spaces_df(upload) == Map(upload.rows, LAMBDA raw : load_spaces_row(upload.mapping, raw))

----------------------------------------------------------------------------
(* load_fixtures_df                                                        *)

\* int(float(x)) succeeds on the cell
QuantityOk(x) == x = NaN \/ IsDecimal(Strip(x))

\* int(float(x)) if pd.notna(x) else ""
Quantity(x) == IF x = NaN THEN WattStr(<<>>) ELSE WattInt(TruncInt(Strip(x)))

load_fixtures_row(mapping, raw) ==
    [ spaceDescription |-> PyStr(raw.spaceDescription),
      description |-> PyStr(raw.description),
      lightingType |-> IF "lightingType" \in mapping
                       THEN PyStr(raw.lightingType) ELSE <<"GENERAL_LIGHTING">>,
      fixtureType |-> IF "fixtureType" \in mapping
                      THEN PyStr(raw.fixtureType) ELSE PyStr(raw.description),
      lampType |-> IF "lampType" \in mapping THEN PyStr(raw.lampType) ELSE <<"LED">>,
      fixtureWattage |-> parse_watts(raw.fixtureWattage),
      quantity |-> Quantity(raw.quantity) ]

\* the list comprehension of line 185 raises on a cell that is no number
load_fixtures_raises(upload) == \E i \in DOMAIN upload.rows : ~QuantityOk(upload.rows[i].quantity)

load_fixtures_df(upload) == Map(upload.rows, LAMBDA raw : load_fixtures_row(upload.mapping, raw))

----------------------------------------------------------------------------
(* validate_spaces_df                                                      *)

ERR_EMPTY == "Spaces CSV appears empty."
ERR_ALLOWANCE == "Some rows have allowanceFloorArea > floorArea."
ERR_LPD == "Some rows have non-positive LPD. Check activity type mapping."

validate_spaces_df(df) ==
    IF df = <<>> THEN <<ERR_EMPTY>>
    ELSE (IF \E i \in DOMAIN df :
                /\ df[i].allowanceFloorArea # <<>>
                /\ df[i].floorArea # <<>>
                /\ df[i].allowanceFloorArea[1] > df[i].floorArea[1]
          THEN <<ERR_ALLOWANCE>> ELSE <<>>)
         \o
         (IF \E i \in DOMAIN df : df[i].lpd # <<>> /\ df[i].lpd[1] <= 0
          THEN <<ERR_LPD>> ELSE <<>>)

----------------------------------------------------------------------------
(* build_cxl                                                               *)

\* str(val) of a fixtureWattage / quantity cell
ValStr(v) == IF v.isnum THEN IntStr(v.num) ELSE v.str

\* a deliberately wrong variant: the key is not stripped
fixtures_by_space_unstripped(fixtures) ==
    LET F[n \in 0..Len(fixtures)] ==
            IF n = 0 THEN <<>>
            ELSE LET row == fixtures[n]
                     key == PyStr(row.spaceDescription)
                 IN  IF key \in DOMAIN F[n - 1]
                     THEN [F[n - 1] EXCEPT ![key] = Append(@, row)]
                     ELSE F[n - 1] @@ (key :> <<row>>)
    IN  F[Len(fixtures)]

\* fixtures_by_space.setdefault(key, []).append(row), row by row
fixtures_by_space(fixtures) ==
    LET F[n \in 0..Len(fixtures)] ==
            IF n = 0 THEN <<>>
            ELSE LET row == fixtures[n]
                     key == Strip(PyStr(row.spaceDescription))
                 IN  IF key \in DOMAIN F[n - 1]
                     THEN [F[n - 1] EXCEPT ![key] = Append(@, row)]
                     ELSE F[n - 1] @@ (key :> <<row>>)
    IN  F[Len(fixtures)]

\* fixtures_by_space.get(desc, [])
DictGet(d, k) == IF k \in DOMAIN d THEN d[k] ELSE <<>>

lightingFixture(fx) ==
    [ description |-> Strip(PyStr(fx.description)),
      lightingType |-> Strip(PyStr(fx.lightingType)),
      fixtureType |-> Strip(PyStr(fx.fixtureType)),
      lampType |-> Strip(PyStr(fx.lampType)),
      fixtureWattage |-> Strip(ValStr(fx.fixtureWattage)),
      quantity |-> Strip(ValStr(fx.quantity)) ]

interiorLightingSpace(sp, by_space) ==
    LET desc == Strip(PyStr(sp.description))
    IN  [ description |-> desc,
          allowanceType |-> Strip(PyStr(sp.allowanceType)),
          allowanceFloorArea |-> IntStrOrZero(sp.allowanceFloorArea),
          floorArea |-> IntStrOrZero(sp.floorArea),
          lightingFixture |-> Map(DictGet(by_space, desc), lightingFixture) ]

activityUse(sp) ==
    LET desc == Strip(PyStr(sp.description))
    IN  [ key |-> desc,
          activityType |-> Strip(PyStr(sp.activityType)),
          activityDescription |-> desc,
          areaDescription |-> desc,
          powerDensity |-> Strip(FloatCellStr(sp.lpd)) ]

\* rows sorted by stripped room name (insertion sort, stable)
RECURSIVE SortByName(_)
SortByName(rows) ==
    IF rows = <<>> THEN <<>>
    ELSE LET rest == SortByName(SubSeq(rows, 1, Len(rows) - 1))
             last == rows[Len(rows)]
             name(r) == Strip(PyStr(r.description))
             before == SelectSeq(rest, LAMBDA r : ~StrLess(name(last), name(r)))
             after == SelectSeq(rest, LAMBDA r : StrLess(name(last), name(r)))
         IN  before \o <<last>> \o after

\* a deliberately wrong variant: the first loop walks the rooms sorted by name
SpaceLoopSorted(spaces) == SortByName(spaces)

\* for _, sp in spaces_df.iterrows(): the rows the first loop writes, in order
SpaceLoop(spaces) == spaces

\* a deliberately wrong variant: the second loop walks the rooms sorted by name
ActivityLoopSorted(spaces) == SortByName(spaces)

\* for _, sp in spaces_df.iterrows(): the rows the second loop writes, in order
ActivityLoop(spaces) == spaces

wholeBldgUse(spaces, fixtures) ==
    [ wholeBldgType |-> <<"WHOLE_BUILDING_INVALID_USE">>,
      key |-> <<"1">>,
      powerDensity |-> <<"0">>,
      internalLoad |-> <<"0">>,
      ceilingHeight |-> <<"0">>,
      listPosition |-> <<"1">>,
      constructionType |-> <<"NON_RESIDENTIAL">>,
      floorArea |-> <<"0">>,
      interiorLightingSpace |->
          LET by_space == fixtures_by_space(fixtures)
          IN  Map(SpaceLoop(spaces), LAMBDA sp : interiorLightingSpace(sp, by_space)) ]

build_cxl(spaces, fixtures) ==
    [ projectType |-> <<"NEW_CONSTRUCTION">>,
      bldgUseType |-> <<"ACTIVITY">>,
      feetBldgHeight |-> <<"0.000">>,
      isNonresidentialConditioning |-> <<"true">>,
      isResidentialConditioning |-> <<"false">>,
      isSemiheatedConditioning |-> <<"false">>,
      conditioning |-> <<"HEATING_AND_COOLING">>,
      control |-> [ code |-> CODE_TO_CONTROL(code_label),
                    complianceMode |-> DEFAULT_COMPLIANCE_MODE,
                    version |-> version_str ],
      location |-> [ state |-> state, city |-> city ],
      project |-> [ projectName |-> project_name, ownerName |-> owner_name,
                    notes |-> notes ],
      envelope |-> [ useOrientDetails |-> <<"true">>,
                     useVltDetails |-> <<"false">>,
                     useCoolRoofPerformanceDetails |-> <<"false">>,
                     airBarrierComplianceType |-> <<"AIR_BARRIER_OPTION_UNKNOWN">>,
                     applyWindowPctAllowanceForDaylighting |-> <<"false">>,
                     applySkylightPctAllowanceForDaylighting |-> <<"false">> ],
      lighting |-> [ exteriorLightingZone |-> <<"0">>,
                     exteriorLightingZoneType |-> <<"EXT_ZONE_UNSPECIFIED">>,
                     wholeBldgUses |-> << wholeBldgUse(spaces, fixtures) >>,
                     activityUses |-> Map(ActivityLoop(spaces), activityUse) ],
      requirements |-> [ energyCode |-> CODE_TO_CONTROL(code_label),
                         softwareVersion |-> version_str ] ]

----------------------------------------------------------------------------
(* Section 3: the inline editor                                            *)

\* editable["allowanceType"].apply(lambda v: v if v in ALLOWANCE_TYPES else ...)
Editable(df) ==
    Map(df, LAMBDA r : [r EXCEPT !.allowanceType =
                            IF @ \in ALLOWANCE_TYPES THEN @ ELSE ALLOWANCE_NONE])

\* the row st.data_editor appends under num_rows="dynamic": every cell missing
AddedRow ==
    [ description |-> None, floorArea |-> <<>>, activityType |-> None, lpd |-> <<>>,
      allowanceType |-> None, allowanceFloorArea |-> <<>> ]

\* the widget's state: edited cells, deleted rows (by their index in the data)
\* and the number of added rows
NoEdits == [lpd |-> <<>>, deleted |-> {}, added |-> 0]

EditCount(e) == Cardinality(DOMAIN e.lpd) + Cardinality(e.deleted) + e.added

\* st.data_editor(editable, ...): the cell edits applied, the deleted rows
\* dropped, the added rows appended
data_editor(df, e) ==
    LET cell(i) == IF i \in DOMAIN e.lpd THEN [df[i] EXCEPT !.lpd = <<e.lpd[i]>>] ELSE df[i]
        Kept[n \in 0..Len(df)] ==
            IF n = 0 THEN <<>>
            ELSE IF n \in e.deleted THEN Kept[n - 1]
            ELSE Append(Kept[n - 1], cell(n))
    IN  Kept[Len(df)] \o [k \in 1..e.added |-> AddedRow]

----------------------------------------------------------------------------
(* The inputs: uploaded files and edits                                    *)

\* rows a spaces CSV may hold; the optional columns are read only when mapped
SpaceRows ==
    { [ description |-> <<" ","L","o","b","b","y">>,
        floorArea |-> <<"1","0",".","5">>,
        activityType |-> LOBBY,
        lpd |-> <<"0",".","9">>,
        allowanceType |-> ALLOWANCE_LOBBIES,
        allowanceFloorArea |-> <<"5">> ],
      [ description |-> <<"H","a","l","l">>,
        floorArea |-> <<"2","0">>,
        activityType |-> CORRIDOR,
        lpd |-> <<"0">>,
        allowanceType |-> <<"BOGUS">>,
        allowanceFloorArea |-> <<"3","0">> ],
      [ description |-> <<"H","a","l","l"," ">>,
        floorArea |-> <<"a","b","c">>,
        activityType |-> NaN,
        lpd |-> NaN,
        allowanceType |-> NaN,
        allowanceFloorArea |-> <<"5">> ] }

\* the optional columns normalize_columns finds in a spaces CSV
SpaceMappings ==
    { {},
      {"activityType", "lpd", "allowanceType", "allowanceFloorArea"} }

\* rows a fixtures CSV may hold
FixtureRows ==
    { [ spaceDescription |-> <<"H","a","l","l">>,
        description |-> <<"X">>,
        quantity |-> <<"2">>,
        fixtureWattage |-> <<"6"," ","W">>,
        lightingType |-> <<"GENERAL_LIGHTING">>,
        fixtureType |-> <<"L","1">>,
        lampType |-> <<"LED">> ],
      [ spaceDescription |-> <<" ","H","a","l","l">>,
        description |-> <<"X">>,
        quantity |-> <<"3">>,
        fixtureWattage |-> <<"6">>,
        lightingType |-> <<"GENERAL_LIGHTING">>,
        fixtureType |-> <<"L","1">>,
        lampType |-> NaN ],
      [ spaceDescription |-> <<"G","y","m">>,
        description |-> <<"Y">>,
        quantity |-> <<"x">>,
        fixtureWattage |-> <<"a","b","c">>,
        lightingType |-> <<"ACCENT">>,
        fixtureType |-> <<"D","L">>,
        lampType |-> <<"LED">> ] }

\* the optional columns normalize_columns finds in a fixtures CSV: the uploads of
\* the model are the four-column files, without the override columns
FixtureMappings == { {} }

\* the tables of at most n distinct rows
Tables(rows, n) ==
    UNION { { t \in [1..k -> rows] : \A i, j \in 1..k : t[i] = t[j] => i = j } : k \in 0..n }

\* a file pd.read_csv or the column lookup raises on
Unreadable == [readable |-> FALSE, mapping |-> {}, rows |-> <<>>]

SpaceFiles ==
    { [readable |-> TRUE, mapping |-> m, rows |-> t] :
        m \in SpaceMappings, t \in Tables(SpaceRows, MaxSpaceRows) } \cup {Unreadable}

FixtureFiles ==
    { [readable |-> TRUE, mapping |-> m, rows |-> t] :
        m \in FixtureMappings, t \in Tables(FixtureRows, MaxFixtureRows) } \cup {Unreadable}

\* LPD values (hundredths) typed into the editor
EditLpdValues == {0}

----------------------------------------------------------------------------
(* One run of the script, top to bottom                                    *)

MSG_SPACES_OK == "Spaces loaded and normalized."
MSG_SPACES_FAILED == "Failed to read spaces CSV"
MSG_FIXTURES_OK == "Fixtures loaded and normalized."
MSG_FIXTURES_FAILED == "Failed to read fixtures CSV"
MSG_READY == "CXL ready! Import it in COMcheck-Web: Project -> Import."

\* Section 2, spaces: pd.read_csv or a column lookup raises on an unreadable file
TrySpaces(upload) ==
    IF ~upload.readable THEN [df |-> <<>>, msgs |-> {MSG_SPACES_FAILED}]
    ELSE [df |-> load_spaces_df(upload), msgs |-> {MSG_SPACES_OK}]

TryFixtures(upload) ==
    IF ~upload.readable \/ load_fixtures_raises(upload)
    THEN [df |-> <<>>, msgs |-> {MSG_FIXTURES_FAILED}]
    ELSE [df |-> load_fixtures_df(upload), msgs |-> {MSG_FIXTURES_OK}]

RECURSIVE SetToSeq(_)
SetToSeq(S) ==
    IF S = {} THEN <<>>
    ELSE LET x == CHOOSE y \in S : TRUE IN <<x>> \o SetToSeq(S \ {x})

\* the files of the model, numbered
SpaceFile == SetToSeq(SpaceFiles)
FixtureFile == SetToSeq(FixtureFiles)

\* the two loads, tabulated over the files of the model
SpacesLoaded == [k \in DOMAIN SpaceFile |-> TrySpaces(SpaceFile[k])]
FixturesLoaded == [k \in DOMAIN FixtureFile |-> TryFixtures(FixtureFile[k])]

\* "if spaces_file:" and "if fixtures_file:"
Section2Spaces(sf) == IF sf = 0 THEN [df |-> <<>>, msgs |-> {}] ELSE SpacesLoaded[sf]

Section2Fixtures(ff) == IF ff = 0 THEN [df |-> <<>>, msgs |-> {}] ELSE FixturesLoaded[ff]

\* Section 3: the editor and the warnings are inside "if not spaces_df.empty"
Section3(df, es) ==
    IF df # <<>>
    THEN LET edited == data_editor(Editable(df), es)
         IN  [df |-> edited, msgs |-> Range(validate_spaces_df(edited))]
    ELSE [df |-> df, msgs |-> {}]

\* Section 4: disabled = spaces_df.empty or bool(validate_spaces_df(spaces_df))
Disabled(df) == df = <<>> \/ validate_spaces_df(df) # <<>>

Script(sf, ff, es, clicked) ==
    LET s2 == Section2Spaces(sf)
        f2 == Section2Fixtures(ff)
        s3 == Section3(s2.df, es)
        dis == Disabled(s3.df)
        run == clicked /\ ~dis
    IN  [ spaces_df |-> s3.df,
          fixtures_df |-> f2.df,
          disabled |-> dis,
          xml_bytes |-> IF run THEN << build_cxl(s3.df, f2.df) >> ELSE <<>>,
          messages |-> s2.msgs \cup f2.msgs \cup s3.msgs
                       \cup (IF run THEN {MSG_READY} ELSE {}) ]

\* the script reruns after every interaction
Rerun(sf, ff, es, clicked) ==
    LET r == Script(sf, ff, es, clicked)
    IN  /\ spaces_file' = sf
        /\ fixtures_file' = ff
        /\ edits' = es
        /\ spaces_df' = r.spaces_df
        /\ fixtures_df' = r.fixtures_df
        /\ disabled' = r.disabled
        /\ xml_bytes' = r.xml_bytes
        /\ messages' = r.messages

----------------------------------------------------------------------------
(* The session: every interaction reruns the script                        *)

FirstRun == Script(0, 0, NoEdits, FALSE)

AppInit ==
    /\ spaces_file = 0
    /\ fixtures_file = 0
    /\ edits = NoEdits
    /\ spaces_df = FirstRun.spaces_df
    /\ fixtures_df = FirstRun.fixtures_df
    /\ disabled = FirstRun.disabled
    /\ xml_bytes = FirstRun.xml_bytes
    /\ messages = FirstRun.messages

ClsIdle == cls_desc = <<>> /\ cls_ret = <<>>
PwIdle == pw_val = <<>> /\ pw_ret = <<>>

\* a new file resets the editor, whose identity is its data
UploadSpaces ==
    /\ \E f \in DOMAIN SpaceFile : Rerun(f, fixtures_file, NoEdits, FALSE)
    /\ UNCHANGED <<clsVars, pwVars>>

ClearSpaces ==
    /\ spaces_file # 0
    /\ Rerun(0, fixtures_file, NoEdits, FALSE)
    /\ UNCHANGED <<clsVars, pwVars>>

UploadFixtures ==
    /\ \E f \in DOMAIN FixtureFile : Rerun(spaces_file, f, edits, FALSE)
    /\ UNCHANGED <<clsVars, pwVars>>

ClearFixtures ==
    /\ fixtures_file # 0
    /\ Rerun(spaces_file, 0, edits, FALSE)
    /\ UNCHANGED <<clsVars, pwVars>>

\* the editor is shown only when the loaded table is not empty
EditorShown == Section2Spaces(spaces_file).df # <<>>

EditableRows == DOMAIN Section2Spaces(spaces_file).df \ edits.deleted

EditCell ==
    /\ EditorShown
    /\ \E i \in EditableRows, v \in EditLpdValues :
          LET e == [edits EXCEPT !.lpd = (i :> v) @@ @]
          IN  /\ EditCount(e) <= MaxEdits
              /\ e # edits
              /\ Rerun(spaces_file, fixtures_file, e, FALSE)
    /\ UNCHANGED <<clsVars, pwVars>>

DeleteRow ==
    /\ EditorShown
    /\ EditCount(edits) < MaxEdits
    /\ \E i \in EditableRows :
          Rerun(spaces_file, fixtures_file, [edits EXCEPT !.deleted = @ \cup {i}], FALSE)
    /\ UNCHANGED <<clsVars, pwVars>>

AddRow ==
    /\ EditorShown
    /\ EditCount(edits) < MaxEdits
    /\ Rerun(spaces_file, fixtures_file, [edits EXCEPT !.added = @ + 1], FALSE)
    /\ UNCHANGED <<clsVars, pwVars>>

\* a disabled button cannot be clicked
ClickGenerate ==
    /\ ~disabled
    /\ Rerun(spaces_file, fixtures_file, edits, TRUE)
    /\ UNCHANGED <<clsVars, pwVars>>

Init == AppInit /\ ClsIdle /\ PwIdle

Next ==
    \/ UploadSpaces
    \/ ClearSpaces
    \/ UploadFixtures
    \/ ClearFixtures
    \/ EditCell
    \/ DeleteRow
    \/ AddRow
    \/ ClickGenerate

Spec == Init /\ [][Next]_vars

----------------------------------------------------------------------------
(* classify_activity applied to room names                                 *)

Fragments ==
    { <<"O","P","E","N"," ","D","E","S","K"," ","A","R","E","A">>,
      <<" ","-"," ">>,
      <<"C","O","R","R","I","D","O","R"," ","5">>,
      <<"P","r","i","v","a","t","e"," ","O","f","f","i","c","e">>,
      <<"P","h","o","n","e"," ","R","o","o","m">>,
      <<"L","o","b","b","y">>,
      <<"H","a","l","l","w","a","y">>,
      <<"S","t","o","r","a","g","e">>,
      <<"W","o","r","k","S","t","a","t","i","o","n">>,
      <<"R","E","C","E","P","T","I","O","N">> }

RECURSIVE Concat(_)
Concat(ss) == IF ss = <<>> THEN <<>> ELSE Head(ss) \o Concat(Tail(ss))

RoomNames ==
    { Concat(fs) : fs \in UNION { [1..n -> Fragments] : n \in 0..MaxFrags } } \cup {NaN}

InitClassify ==
    /\ AppInit /\ PwIdle
    /\ cls_desc \in RoomNames
    /\ cls_ret = <<>>

Classify ==
    /\ cls_ret = <<>>
    /\ cls_ret' = << classify_activity(cls_desc) >>
    /\ UNCHANGED <<cls_desc, appVars, pwVars>>

SpecClassify == InitClassify /\ [][Classify]_vars

----------------------------------------------------------------------------
(* parse_watts applied to wattage cells                                    *)

WattChars == {"6", "1", ".", " ", "W", "a"}

WattCells == UNION { [1..n -> WattChars] : n \in 0..MaxWattLen } \cup {NaN}

InitWatts ==
    /\ AppInit /\ ClsIdle
    /\ pw_val \in WattCells
    /\ pw_ret = <<>>

ParseWatts ==
    /\ pw_ret = <<>>
    /\ pw_ret' = << parse_watts(pw_val) >>
    /\ UNCHANGED <<pw_val, appVars, clsVars>>

SpecWatts == InitWatts /\ [][ParseWatts]_vars

----------------------------------------------------------------------------
(* The generated document                                                  *)

Generated == xml_bytes # <<>>

\* the interiorLightingSpace elements, in document order
Spaces == xml_bytes[1].lighting.wholeBldgUses[1].interiorLightingSpace

\* the activityUse elements, in document order
Uses == xml_bytes[1].lighting.activityUses

\* the stripped room name of a table row
RoomOf(row) == Strip(PyStr(row.description))

\* the listPosition texts the elements of a section carry
ListPositions(recs) ==
    { recs[i].listPosition : i \in { j \in DOMAIN recs : "listPosition" \in DOMAIN recs[j] } }

----------------------------------------------------------------------------
(* C1 *)

\* C1: in every generated document the list positions carried by the
\* interiorLightingSpace elements are exactly 1..N, N the number of distinct
\* rooms, and so are those carried by the activityUse elements.
C1_ListPositionsCover ==
    Generated =>
        LET N == Cardinality({ RoomOf(spaces_df[i]) : i \in DOMAIN spaces_df })
            want == { IntStr(k) : k \in 1..N }
        IN  /\ ListPositions(Spaces) = want
            /\ ListPositions(Uses) = want

----------------------------------------------------------------------------
(* C2 *)

----------------------------------------------------------------------------
(* C3 *)

\* the fixture rows of a room and fixture type
RowsOf(room, type) ==
    SelectSeq(fixtures_df, LAMBDA r : /\ Strip(PyStr(r.spaceDescription)) = room
                                      /\ Strip(PyStr(r.fixtureType)) = type)

RECURSIVE QuantitySum(_)
QuantitySum(rows) ==
    IF rows = <<>> THEN 0
    ELSE (IF Head(rows).quantity.isnum THEN Head(rows).quantity.num ELSE 0)
         + QuantitySum(Tail(rows))

\* C3: in every generated document a room's interiorLightingSpace holds one
\* lightingFixture per fixture type of the room, and its quantity is the sum of
\* the quantities of the fixture rows of that room and type.
C3_QuantityAccumulates ==
    Generated =>
        \A k \in DOMAIN Spaces :
            LET fx == Spaces[k].lightingFixture
            IN  \A j \in DOMAIN fx :
                    /\ Cardinality({ i \in DOMAIN fx : fx[i].fixtureType = fx[j].fixtureType }) = 1
                    /\ fx[j].quantity =
                          IntStr(QuantitySum(RowsOf(Spaces[k].description, fx[j].fixtureType)))

----------------------------------------------------------------------------
(* C4 *)

\* the rules in their order: the keywords and what a match returns
Rules ==
    << [keys |-> OpenPlanKeys, ret |-> Activity(OPEN_PLAN, 86)],
       [keys |-> EnclosedKeys, ret |-> Activity(ENCLOSED, 79)],
       [keys |-> ConferenceKeys, ret |-> Activity(CONFERENCE, 93)],
       [keys |-> LobbyKeys, ret |-> Activity(LOBBY, 90)],
       [keys |-> CorridorKeys, ret |-> Activity(CORRIDOR, 66)] >>

Fallback == Activity(OPEN_PLAN, 86)

\* a keyword occurs in the name, whatever the case of the name's letters
OccursIn(key, name) ==
    \E off \in 0..(Len(name) - Len(key)) :
        \A j \in DOMAIN key :
            LET c == name[off + j]
            IN  c = key[j] \/ (c \in DOMAIN LowerMap /\ LowerMap[c] = key[j])

OpenDeskCorridor5 ==
    <<"O","P","E","N"," ","D","E","S","K"," ","A","R","E","A",
      " ","-"," ","C","O","R","R","I","D","O","R"," ","5">>

\* C4: classify_activity returns a value for every name (a missing one
\* included): that of the first rule, in the order open-plan office, enclosed
\* office, conference, lobby, corridor, one of whose keywords occurs in the name
\* whatever its case, and the fallback when no rule matches; "OPEN DESK AREA -
\* CORRIDOR 5" is an open-plan office.
C4_FirstMatchWins ==
    cls_ret # <<>> =>
        LET name == IF cls_desc = NaN THEN <<>> ELSE cls_desc
            hits == { i \in DOMAIN Rules : \E key \in Rules[i].keys : OccursIn(key, name) }
        IN  /\ cls_ret[1] = IF hits = {} THEN Fallback
                            ELSE Rules[CHOOSE i \in hits : \A j \in hits : i <= j].ret
            /\ cls_desc = OpenDeskCorridor5 => cls_ret[1].activityType = OPEN_PLAN

C4_Witness ==
    /\ cls_ret # <<>>
    /\ cls_desc = OpenDeskCorridor5
    /\ cls_ret[1] = Activity(OPEN_PLAN, 86)

----------------------------------------------------------------------------
(* C5 *)

HasDigit(s) == \E i \in DOMAIN s : s[i] \in DigitChars

\* C5: parse_watts always returns a number: 6 for "6 W", "6W" and "6", and 0 for
\* a missing, empty or digit-free cell.
C5_WattsAlwaysNumeric ==
    pw_ret # <<>> =>
        /\ pw_ret[1].isnum
        /\ pw_val \in { <<"6"," ","W">>, <<"6","W">>, <<"6">> } => pw_ret[1].num = 6
        /\ (pw_val = NaN \/ ~HasDigit(pw_val)) => pw_ret[1].num = 0

----------------------------------------------------------------------------
(* C7 *)

\* C7: whenever a spaces file is uploaded and the space table is empty, an
\* error about the spaces is shown to the user, the Generate button is disabled
\* and no document is offered.
C7_EmptyTableReported ==
    (spaces_file # 0 /\ spaces_df = <<>>) =>
        /\ messages \cap {ERR_EMPTY, MSG_SPACES_FAILED} # {}
        /\ disabled
        /\ ~Generated

----------------------------------------------------------------------------
(* C8 *)

\* the cell holds a number
Numeric(x) == x # NaN /\ IsDecimal(Strip(x))

\* C8: a space row whose area is no number yields no interiorLightingSpace, a
\* fixture row whose quantity or wattage is no number is left out of the loaded
\* fixtures, and every other row is kept.
C8_BadRowsSkipped ==
    /\ (Generated /\ edits = NoEdits) =>
          LET rows == SpaceFile[spaces_file].rows
          IN  Len(Spaces) = Cardinality({ i \in DOMAIN rows : Numeric(rows[i].floorArea) })
    /\ (fixtures_file # 0 /\ FixtureFile[fixtures_file].readable) =>
          LET rows == FixtureFile[fixtures_file].rows
          IN  Len(fixtures_df) =
                 Cardinality({ i \in DOMAIN rows : /\ Numeric(rows[i].quantity)
                                                   /\ HasDigit(rows[i].fixtureWattage) })

----------------------------------------------------------------------------
(* C9 *)

\* C9 as stated: the interiorLightingSpace and activityUse elements are in
\* ascending order of room name.
C9_LexicographicOrder ==
    Generated =>
        \A k \in 1..(Len(Spaces) - 1) :
            /\ ~StrLess(Spaces[k + 1].description, Spaces[k].description)
            /\ ~StrLess(Uses[k + 1].key, Uses[k].key)

\* C9, amended: the k-th interiorLightingSpace and the k-th activityUse are
\* those of the k-th row of the space table; the rows are not sorted.
C9_RowOrder ==
    Generated =>
        /\ DOMAIN Spaces = DOMAIN spaces_df
        /\ DOMAIN Uses = DOMAIN spaces_df
        /\ \A k \in DOMAIN spaces_df :
              /\ Spaces[k].description = RoomOf(spaces_df[k])
              /\ Uses[k].key = RoomOf(spaces_df[k])

C9_Witness ==
    /\ Generated
    /\ Len(spaces_df) >= 2
    /\ StrLess(RoomOf(spaces_df[2]), RoomOf(spaces_df[1]))
    /\ StrLess(Spaces[2].description, Spaces[1].description)

----------------------------------------------------------------------------
(* C10 *)

RECURSIVE Total(_)
Total(ns) == IF ns = <<>> THEN 0 ELSE Head(ns) + Total(Tail(ns))

\* the number of lightingFixture elements of the document
Emitted == Total([k \in DOMAIN Spaces |-> Len(Spaces[k].lightingFixture)])

\* the fixture rows of a room, in row order
RowsOfRoom(room) ==
    SelectSeq(fixtures_df, LAMBDA r : Strip(PyStr(r.spaceDescription)) = room)

----------------------------------------------------------------------------
(* C11 *)

\* the number an emitted integer text stands for
EmittedInt(s) == TruncInt(s)

\* the emitted text is a number greater than zero
EmittedPositive(s) == IsDecimal(s) /\ Hundredths(s) > 0

\* build_cxl ran on a table validate_spaces_df has no error for
C11_GateHolds == Generated => validate_spaces_df(spaces_df) = <<>>

\* every interiorLightingSpace has allowanceFloorArea <= floorArea, as emitted
C11_AllowanceWithinArea ==
    Generated => \A k \in DOMAIN Spaces :
        EmittedInt(Spaces[k].allowanceFloorArea) <= EmittedInt(Spaces[k].floorArea)

\* every activityUse has a powerDensity greater than zero, as emitted
C11_PowerDensityPositive ==
    Generated => \A k \in DOMAIN Uses : EmittedPositive(Uses[k].powerDensity)

\* C11: validation gates generation: whenever a document has been generated,
\* validate_spaces_df returns no error for the table it was built from, every
\* interiorLightingSpace has an emitted allowanceFloorArea less than or equal to
\* its emitted floorArea, and every activityUse has a powerDensity greater than
\* zero.
C11_ValidationGatesOutput ==
    /\ C11_GateHolds
    /\ C11_AllowanceWithinArea
    /\ C11_PowerDensityPositive

=============================================================================
